---- MODULE Spec2Model ----
(***************************************************************************)
(* A model of pi-bot's mailing-list bot (mlbot.py): the checkpoint         *)
(* last_check, the repeating jobs that run check_new_threads, the command  *)
(* handlers start, set_last_check and threads, and the pure helpers        *)
(* months_after, build_thread_row and paginate_message.                    *)
(*                                                                         *)
(* Time is counted in ticks; MonthLen ticks make a calendar month.  A      *)
(* string is modelled by what the code reads of it: a row by the entry it  *)
(* renders and its length, a chunk by the rows it holds, each followed by  *)
(* its newline.                                                            *)
(***************************************************************************)
EXTENDS Integers, Sequences, FiniteSets, TLC

VARIABLES clock, last_check, started, archive, jobs, net, reply,
          delivered, covered, prevWritten, lastWritten,
          m_date, m_today, m_mm, m_out, m_pc,
          p_in, p_rows, p_acc, p_out, p_pc,
          r_msg, r_url, r_out, r_pc

botVars == <<clock, last_check, started, archive, jobs, net, reply,
             delivered, covered, prevWritten, lastWritten>>
monthVars == <<m_date, m_today, m_mm, m_out, m_pc>>
pagVars == <<p_in, p_rows, p_acc, p_out, p_pc>>
rowVars == <<r_msg, r_url, r_out, r_pc>>
vars == <<botVars, monthVars, pagVars, rowVars>>

(***************************************************************************)
(* Bounds of the model.                                                    *)
(***************************************************************************)
MonthLen == 2
MaxTicks == 2
MaxEntries == 2
MaxJobs == 2
MaxLoad == 3
MaxRows == 3
MonthSpan == 14
TitleLength == 1900

(***************************************************************************)
(* Program constants.                                                      *)
(***************************************************************************)
MaxChunk == 4000
MaxRowText == 4000
DateLen == 24
LinkLen == 11

Min(a, b) == IF a <= b THEN a ELSE b
Max(a, b) == IF a >= b THEN a ELSE b

\* get_date's result for a date string no parser recognises (Python's None).
None == 0 - 1

\* The first tick of December 2017: the clock starts there, one month
\* before a year boundary.
Epoch == (12 * 2017 + 11) * MonthLen

\* datetime.year and datetime.month of a timestamp.
Year(t) == (t \div MonthLen) \div 12
Month(t) == ((t \div MonthLen) % 12) + 1

\* maya.now().datetime()
now == clock

\* list(calendar.month_name) in the en_US locale; Python indexes it from 0.
month_names == <<"", "January", "February", "March", "April", "May", "June",
                 "July", "August", "September", "October", "November",
                 "December">>
MonthName(i) == month_names[i + 1]

(***************************************************************************)
(* months_after: the (year, month name) pairs from the month of `date` to  *)
(* the month of `today`.                                                   *)
(***************************************************************************)
MonthsStartOffByOne(date) == 12 * Year(date) + Month(date)
MonthsStart(date) == 12 * Year(date) + Month(date) - 1
MonthsEnd(today) == 12 * Year(today) + Month(today)
PeriodOf(mm) == <<mm \div 12, MonthName((mm % 12) + 1)>>
months_after(date, today) ==
    LET start == MonthsStart(date)
        end == MonthsEnd(today)
    IN  [i \in 1..Max(0, end - start) |-> PeriodOf(start + i - 1)]

\* The period page an entry posted at tick t is archived under.
PeriodAt(t) == <<Year(t), MonthName(Month(t))>>

(***************************************************************************)
(* build_thread_row, by lengths.                                           *)
(***************************************************************************)
RECURSIVE Digits(_)
Digits(n) == IF n < 10 THEN 1 ELSE 1 + Digits(n \div 10)

\* len(get_month_url(year, month))
MonthUrlLen(per) == Len("http://lists.python.it/pipermail/pycon/")
                    + Digits(per[1]) + 1 + Len(per[2]) + 1

\* len(s[:k]) for a string of length n (a negative k counts from the end).
SliceLen(n, k) == IF k >= 0 THEN Min(n, k) ELSE Max(0, n + k)

RowLen(msgLen, urlLen) ==
    LET max_len == MaxRowText - urlLen
        label == SliceLen(msgLen, max_len) + 1 + DateLen
    IN  Len(" - <a href=\"") + urlLen + Len("\">") + label + Len("</a>")

build_thread_row(e, base_url_len) ==
    [id |-> e.id, len |-> RowLen(e.tlen, base_url_len + LinkLen)]

\* '<b>New threads since {}</b>\n', the first row handed to paginate_message.
HeaderRow == [id |-> 0, len |-> Len("<b>New threads since ") + DateLen + Len("</b>") + 1]

\* '<b>Threads {} {}</b>\n', the first row of a listing of period per.
ThreadsHeader(per) ==
    [id |-> 0, len |-> Len("<b>Threads ") + Digits(per[1]) + 1 + Len(per[2]) + Len("</b>") + 1]

(***************************************************************************)
(* paginate_message.  StrLen is len() of a string made of whole rows, each *)
(* followed by '\n'.                                                       *)
(***************************************************************************)
RECURSIVE StrLen(_)
StrLen(s) == IF s = <<>> THEN 0 ELSE Head(s).len + 1 + StrLen(Tail(s))

\* if len(acc + row) + 1 > 4000
OverflowsWithoutNewline(acc, row) == StrLen(acc) + row.len > MaxChunk
Overflows(acc, row) == StrLen(acc) + row.len + 1 > MaxChunk

\* The accumulator after one turn of the loop.
AccAfterDropsRow(acc, row) == IF Overflows(acc, row) THEN <<>> ELSE Append(acc, row)
AccAfter(acc, row) == IF Overflows(acc, row) THEN <<row>> ELSE Append(acc, row)

\* What one turn of the loop yields: the accumulator, or nothing.
YieldOf(acc, row) == IF Overflows(acc, row) THEN <<acc>> ELSE <<>>

RECURSIVE PaginateFrom(_, _)
PaginateFrom(acc, rows) ==
    IF rows = <<>> THEN <<acc>>
    ELSE YieldOf(acc, Head(rows)) \o PaginateFrom(AccAfter(acc, Head(rows)), Tail(rows))

paginate_message(rows) == PaginateFrom(<<>>, rows)

\* The rows of a sequence of chunks, in order.
RECURSIVE Flatten(_)
Flatten(chunks) == IF chunks = <<>> THEN <<>> ELSE Head(chunks) \o Flatten(Tail(chunks))

(***************************************************************************)
(* The archive: the entries posted so far, in posting order.  An entry is  *)
(* archived under the period it was posted in; its date is the posting     *)
(* tick, or None when its date string is one no parser recognises.         *)
(***************************************************************************)
JobIds == 1..MaxJobs
\* Titles are long enough for two rows not to fit one chunk behind a header.
TitleLens == {TitleLength}

\* The dates a /slc command names: one in the month before the clock's first
\* tick, one the clock never reaches.
SlcDates == {Epoch - 1, Epoch + MaxTicks + 1}

\* The texts of a /slc command: one without a space, one whose date maya
\* cannot read, and one for each date.
SlcTexts == {[kind |-> "NoSpace", day |-> None], [kind |-> "Unparseable", day |-> None]}
                \cup {[kind |-> "Date", day |-> d] : d \in SlcDates}

\* The texts of a /th command: one maya cannot read, and a date of the month
\* the clock starts in.
ThTexts == {[kind |-> "Unparseable", day |-> None], [kind |-> "Date", day |-> Epoch]}

PageOf(per) == SelectSeq(archive, LAMBDA e : e.per = per)
PageExists(per) == PageOf(per) # <<>>

\* Whether a request for a message page, or a send_message, goes through.
Outcomes == IF net = "flaky" THEN BOOLEAN ELSE {TRUE}

\* A job's record: the position of its callback (pc) and the callback's
\* locals; since is last_check as the cycle found it, answer the answer to the
\* latest request for a thread index while the cycle has not moved on, wrote
\* whether the cycle has written the checkpoint, err the exception that ended
\* it.
IdleJob == [reg |-> FALSE, pc |-> "idle", since |-> None, months |-> <<>>,
            topics |-> <<>>, rows |-> <<>>, chunks |-> <<>>, answer |-> "none",
            wrote |-> FALSE, err |-> "none"]

\* The entries a chunk (a sequence of rows) renders; the header is row 0.
\* The jobs registered and the entries archived: the load the bounds cap.
Registered == {j \in JobIds : jobs[j].reg}
Load == Cardinality(Registered) + Len(archive)

RowIds(chunk) == {chunk[i].id : i \in 1..Len(chunk)} \ {0}

\* The entries a sequence of rows renders, in order.
IdsOf(rows) == [i \in 1..Len(rows) |-> rows[i].id]

\* What the step just taken handed to bot.send_message in answer to a
\* command: the command and whether its text held a date (arg), the message
\* (text), for a listing its period and the entries of its rows, and whether
\* an exception ended the handler (raised).
NoReply == [cmd |-> "none", arg |-> "none", text |-> "none", per |-> <<>>,
            rows |-> <<>>, raised |-> FALSE]
Answer(cmd, arg, text) == [NoReply EXCEPT !.cmd = cmd, !.arg = arg, !.text = text]
ArgOf(t) == IF t.kind = "Date" THEN "Date" ELSE "NoDate"

\* Init but for net, which says whether requests and sends can fail ("flaky")
\* or all succeed ("reliable"); no step changes it.
InitBotState ==
    /\ clock = Epoch
    /\ last_check = Epoch
    /\ started = FALSE
    /\ archive = <<>>
    /\ jobs = [j \in JobIds |-> IdleJob]
    /\ reply = NoReply
    /\ delivered = {}
    /\ covered = {}
    /\ prevWritten = None
    /\ lastWritten = None

IdleMonths ==
    /\ m_date = Epoch /\ m_today = Epoch /\ m_mm = 0 /\ m_out = <<>> /\ m_pc = "off"

IdlePag ==
    /\ p_in = <<>> /\ p_rows = <<>> /\ p_acc = <<>> /\ p_out = <<>> /\ p_pc = "off"

\* A row as build_thread_row puts it together: the characters of the URL and
\* of the title it holds, and its length.
NoRow == [url |-> 0, title |-> 0, len |-> 0]

IdleRow ==
    /\ r_msg = 0 /\ r_url = 0 /\ r_out = NoRow /\ r_pc = "off"

InitBot == InitBotState /\ net = "flaky"

Init == InitBot /\ IdleMonths /\ IdlePag /\ IdleRow

\* The same bot on a network on which no request and no send fails.
InitReliable == InitBotState /\ net = "reliable" /\ IdleMonths /\ IdlePag /\ IdleRow

\* Time passes.
Tick ==
    /\ reply' = NoReply
    /\ clock < Epoch + MaxTicks
    /\ clock' = clock + 1
    /\ UNCHANGED <<last_check, started, archive, jobs, net, delivered,
                   covered, prevWritten, lastWritten, monthVars, pagVars, rowVars>>

\* A message reaches the list and becomes visible in the current period's page.
Post ==
    /\ reply' = NoReply
    /\ Len(archive) < MaxEntries /\ Load < MaxLoad
    /\ \E d \in {clock, None}, tl \in TitleLens :
          archive' = Append(archive, [id |-> Len(archive) + 1, date |-> d,
                                      per |-> PeriodAt(clock), tlen |-> tl])
    /\ UNCHANGED <<clock, last_check, started, jobs, net, delivered,
                   covered, prevWritten, lastWritten, monthVars, pagVars, rowVars>>

(***************************************************************************)
(* start: resets the checkpoint, sends the welcome message, registers a    *)
(* repeating job for the chat and sets started.  A send that raises ends   *)
(* the handler after the checkpoint was reset.                             *)
(***************************************************************************)
Start ==
    /\ \E j \in JobIds :
          /\ ~jobs[j].reg /\ Load < MaxLoad
          /\ \A k \in JobIds : k < j => jobs[k].reg
          /\ \E sendOk \in Outcomes :
                /\ last_check' = now
                /\ reply' = [Answer("start", "none", "Welcome") EXCEPT !.raised = ~sendOk]
                /\ IF sendOk
                   THEN /\ jobs' = [jobs EXCEPT ![j] = [IdleJob EXCEPT !.reg = TRUE]]
                        /\ started' = TRUE
                   ELSE UNCHANGED <<jobs, started>>
    /\ UNCHANGED <<clock, archive, net, delivered, covered, prevWritten,
                   lastWritten, monthVars, pagVars, rowVars>>

(***************************************************************************)
(* set_last_check: refused before start; a text without a space or with an *)
(* unreadable date raises ValueError and is answered with an apology;      *)
(* otherwise the checkpoint becomes the date read.                         *)
(***************************************************************************)
\* if not self.started
SlcRefusedNever == FALSE
SlcRefused == ~started

\* self.last_check after the handler.
SlcCheckpointResetOnError(text) ==
    IF SlcRefused THEN last_check
    ELSE IF text.kind # "Date" THEN now ELSE text.day
SlcCheckpoint(text) ==
    IF SlcRefused THEN last_check
    ELSE IF text.kind # "Date" THEN last_check ELSE text.day

\* The message the handler sends.
SlcMessage(text) ==
    IF SlcRefused THEN "NotStarted"
    ELSE IF text.kind # "Date" THEN "Sorry" ELSE "Set"

SetLastCheck ==
    /\ \E text \in SlcTexts :
          /\ last_check' = SlcCheckpoint(text)
          /\ reply' = Answer("slc", ArgOf(text), SlcMessage(text))
    /\ UNCHANGED <<clock, started, archive, jobs, net, delivered, covered,
                   prevWritten, lastWritten, monthVars, pagVars, rowVars>>

(***************************************************************************)
(* check_new_threads, run by a registered repeating job.  The cycle is     *)
(* split where it reads or writes state another thread can change: the     *)
(* start of the loop, each fetch of a period's thread index, each entry    *)
(* (its message page is fetched, its date compared with last_check), the   *)
(* checkpoint write, and each send_message.  An exception leaves the       *)
(* callback; the job queue logs it and the job stays registered.           *)
(***************************************************************************)
\* The callback's locals die with it; what the cycle did stays on record
\* until the job's next cycle.
Ended(job) == [job EXCEPT !.pc = "idle", !.since = None, !.months = <<>>,
                          !.topics = <<>>, !.rows = <<>>, !.chunks = <<>>]
Abort(j, why) == Ended([jobs[j] EXCEPT !.err = why, !.answer = "none"])

\* for year, month in self.months_after(self.last_check)
BeginCycle(j) ==
    /\ reply' = NoReply
    /\ jobs[j].reg /\ jobs[j].pc = "idle"
    /\ jobs' = [jobs EXCEPT ![j] =
                  [IdleJob EXCEPT !.reg = TRUE, !.pc = "scan", !.since = last_check,
                                  !.months = months_after(last_check, now)]]
    /\ UNCHANGED <<clock, last_check, started, archive, net, delivered,
                   covered, prevWritten, lastWritten, monthVars, pagVars, rowVars>>

\* What threads_for_month does with the answer to its request for thread.html:
\* "topics" (the page was read), "empty" (HTTPError: return) or "raise".
IndexOutcomeRaisesOn404(resp) ==
    IF resp = "ok" THEN "topics" ELSE IF resp = "5xx" THEN "empty" ELSE "raise"
IndexOutcome(resp) ==
    IF resp = "ok" THEN "topics" ELSE IF resp \in {"404", "5xx"} THEN "empty" ELSE "raise"

\* The answers the server can give for a period's thread index: the page when
\* the period has one, 404 when it has none, a server error or no answer at all
\* (URLError) at any time.
IndexAnswers(per) ==
    (IF PageExists(per) THEN {"ok"} ELSE {"404"})
        \cup (IF net = "flaky" THEN {"5xx", "neterr"} ELSE {})


FetchIndex(j) ==
    /\ reply' = NoReply
    /\ jobs[j].pc = "scan" /\ jobs[j].topics = <<>> /\ jobs[j].months # <<>>
    /\ \E resp \in IndexAnswers(Head(jobs[j].months)) :
          LET per == Head(jobs[j].months)
              out == IndexOutcome(resp)
          IN  jobs' = [jobs EXCEPT ![j] =
                  IF out = "topics"
                  THEN [jobs[j] EXCEPT !.topics = PageOf(per), !.answer = resp]
                  ELSE IF out = "empty"
                  THEN [jobs[j] EXCEPT !.months = Tail(jobs[j].months),
                                       !.answer = resp]
                  ELSE [Abort(j, "FetchFailure") EXCEPT !.answer = resp]]
    /\ UNCHANGED <<clock, last_check, started, archive, net, delivered,
                   covered, prevWritten, lastWritten, monthVars, pagVars, rowVars>>

\* What the loop body does with the date get_date returned: "raise" (None
\* cannot be compared with a datetime), "skip" or "keep".
CompareKeepsEqual(td, check) ==
    IF td = None THEN "raise" ELSE IF td < check THEN "skip" ELSE "keep"
Compare(td, check) ==
    IF td = None THEN "raise" ELSE IF td <= check THEN "skip" ELSE "keep"

\* new_threads.append(row)
AddRowInFront(rows, row) == <<row>> \o rows
AddRow(rows, row) == Append(rows, row)

\* One entry of the current period: get_date fetches its message page (which
\* may fail), then the loop body compares the date with self.last_check.
NextEntry(j) ==
    /\ reply' = NoReply
    /\ jobs[j].pc = "scan" /\ jobs[j].topics # <<>>
    /\ \E fetched \in Outcomes :
          LET e == Head(jobs[j].topics)
              per == Head(jobs[j].months)
              rest == Tail(jobs[j].topics)
              left == IF rest = <<>> THEN Tail(jobs[j].months) ELSE jobs[j].months
              what == Compare(e.date, last_check)
          IN  jobs' = [jobs EXCEPT ![j] =
                  IF ~fetched THEN Abort(j, "FetchFailure")
                  ELSE IF what = "raise" THEN Abort(j, "TypeError")
                  ELSE IF what = "skip"
                  THEN [jobs[j] EXCEPT !.topics = rest, !.months = left,
                                       !.answer = "none"]
                  ELSE [jobs[j] EXCEPT !.topics = rest, !.months = left,
                          !.answer = "none",
                          !.rows = AddRow(jobs[j].rows,
                                          build_thread_row(e, MonthUrlLen(per)))]]
    /\ UNCHANGED <<clock, last_check, started, archive, net, delivered,
                   covered, prevWritten, lastWritten, monthVars, pagVars, rowVars>>

\* The entries visible in the archive whose date lies after `since` and not
\* after `upto`.
Between(since, upto) ==
    {archive[i].id : i \in {k \in 1..Len(archive) :
        archive[k].date # None /\ archive[k].date > since /\ archive[k].date <= upto}}

\* self.last_check = now()
CheckpointAtEndKeepsSince(j) == jobs[j].since
CheckpointAtEnd(j) == now

\* if new_threads (negated)
NothingToSendNever(rows) == FALSE
NothingToSend(rows) == rows = <<>>

\* The loop is over: the checkpoint is written, and the rows found, if any,
\* are paginated behind a header.
WriteCheckpoint(j) ==
    /\ reply' = NoReply
    /\ jobs[j].pc = "scan" /\ jobs[j].topics = <<>> /\ jobs[j].months = <<>>
    /\ last_check' = CheckpointAtEnd(j)
    /\ prevWritten' = lastWritten
    /\ lastWritten' = last_check'
    /\ covered' = covered \cup Between(jobs[j].since, last_check')
    /\ jobs' = [jobs EXCEPT ![j] =
                  IF NothingToSend(jobs[j].rows)
                  THEN Ended([jobs[j] EXCEPT !.wrote = TRUE, !.answer = "none"])
                  ELSE [jobs[j] EXCEPT !.pc = "send", !.wrote = TRUE,
                          !.answer = "none",
                          !.chunks = paginate_message(<<HeaderRow>> \o jobs[j].rows)]]
    /\ UNCHANGED <<clock, started, archive, net, delivered, monthVars, pagVars, rowVars>>

\* bot.send_message of the next chunk, which may raise.
SendChunk(j) ==
    /\ reply' = NoReply
    /\ jobs[j].pc = "send"
    /\ \E sendOk \in Outcomes :
          LET chunk == Head(jobs[j].chunks)
              rest == Tail(jobs[j].chunks)
          IN  IF sendOk
              THEN /\ delivered' = delivered \cup RowIds(chunk)
                   /\ jobs' = [jobs EXCEPT ![j] =
                         IF rest = <<>> THEN Ended(jobs[j])
                         ELSE [jobs[j] EXCEPT !.chunks = rest]]
              ELSE /\ jobs' = [jobs EXCEPT ![j] = Abort(j, "SendFailure")]
                   /\ UNCHANGED delivered
    /\ UNCHANGED <<clock, last_check, started, archive, net, covered,
                   prevWritten, lastWritten, monthVars, pagVars, rowVars>>

Cycle == \E j \in JobIds :
            \/ BeginCycle(j)
            \/ FetchIndex(j)
            \/ NextEntry(j)
            \/ WriteCheckpoint(j)
            \/ SendChunk(j)

(***************************************************************************)
(* threads: lists the period a date falls in.  The handler reads and       *)
(* writes nothing of the bot but month_names, so it is one step: its       *)
(* request for the thread index, the requests for the message pages, and   *)
(* the send_message calls, of which the first sent chunks are on record    *)
(* when one raises.  An unreadable date is answered with an apology; any   *)
(* other exception leaves the handler.                                     *)
(***************************************************************************)
\* The chunks handed to send_message: all of them, or the first few when a
\* send can raise.
SentCounts(chunks) == IF net = "flaky" THEN 1..Len(chunks) ELSE {Len(chunks)}

Threads ==
    /\ \E text \in ThTexts :
          IF text.kind # "Date"
          THEN reply' = Answer("th", ArgOf(text), "Sorry")
          ELSE LET per == PeriodAt(text.day)
               IN  \E resp \in IndexAnswers(per), fetched \in Outcomes :
                     LET out == IndexOutcome(resp)
                         page == IF out = "topics" THEN PageOf(per) ELSE <<>>
                         dates == {page[i].date : i \in 1..Len(page)}
                         rows == [i \in 1..Len(page) |->
                                    build_thread_row(page[i], MonthUrlLen(per))]
                         chunks == paginate_message(<<ThreadsHeader(per)>> \o rows)
                     IN  IF out = "raise" \/ (page # <<>> /\ ~fetched) \/ None \in dates
                         THEN reply' = [Answer("th", "Date", "none") EXCEPT
                                           !.per = per, !.raised = TRUE]
                         ELSE \E n \in SentCounts(chunks) :
                                reply' = [Answer("th", "Date", "Threads") EXCEPT
                                            !.per = per,
                                            !.rows = SelectSeq(IdsOf(Flatten(SubSeq(chunks, 1, n))),
                                                               LAMBDA id : id # 0),
                                            !.raised = (n < Len(chunks))]
    /\ UNCHANGED <<clock, last_check, started, archive, jobs, net, delivered,
                   covered, prevWritten, lastWritten, monthVars, pagVars, rowVars>>

\* The checkpoint's readers and writers, with the jobs' cycles running side
\* by side.
Next == Tick \/ Post \/ Start \/ SetLastCheck \/ Cycle

Spec == Init /\ [][Next]_vars

ReliableSpec == InitReliable /\ [][Next]_vars

(***************************************************************************)
(* The bot as its users see it when the job queue runs one callback at a   *)
(* time and nobody sends /slc: a cycle begins only when no other is in     *)
(* flight, while /start and /th commands arrive at any moment.             *)
(***************************************************************************)
SerialCycle == \E j \in JobIds :
                  \/ BeginCycle(j) /\ \A k \in JobIds : jobs[k].pc = "idle"
                  \/ FetchIndex(j)
                  \/ NextEntry(j)
                  \/ WriteCheckpoint(j)
                  \/ SendChunk(j)

NextSerial == Tick \/ Post \/ Start \/ Threads \/ SerialCycle

SerialSpec == Init /\ [][NextSerial]_vars

(***************************************************************************)
(* months_after on its own: the generator is called with a date and a      *)
(* value for now(), and yields one period per turn of its loop.            *)
(***************************************************************************)
MonthDates == (Epoch - 2 * MonthLen)..(Epoch + MonthSpan * MonthLen)

InitMonths ==
    /\ InitBot /\ IdlePag /\ IdleRow
    /\ m_date \in MonthDates /\ m_today \in MonthDates
    /\ m_mm = 0 /\ m_out = <<>> /\ m_pc = "call"

\* today = now(); start = ...; end = ...
MonthsCall ==
    /\ m_pc = "call"
    /\ m_mm' = MonthsStart(m_date)
    /\ m_pc' = "loop"
    /\ UNCHANGED <<m_date, m_today, m_out, botVars, pagVars, rowVars>>

\* for mm in range(start, end): yield (str(y), self.month_names[m+1])
MonthsYield ==
    /\ m_pc = "loop" /\ m_mm < MonthsEnd(m_today)
    /\ m_out' = Append(m_out, PeriodOf(m_mm))
    /\ m_mm' = m_mm + 1
    /\ UNCHANGED <<m_date, m_today, m_pc, botVars, pagVars, rowVars>>

MonthsReturn ==
    /\ m_pc = "loop" /\ m_mm >= MonthsEnd(m_today)
    /\ m_pc' = "done"
    /\ UNCHANGED <<m_date, m_today, m_mm, m_out, botVars, pagVars, rowVars>>

NextMonths == MonthsCall \/ MonthsYield \/ MonthsReturn

MonthsSpec == InitMonths /\ [][NextMonths]_vars

(***************************************************************************)
(* paginate_message on its own: the generator is called with a sequence of *)
(* rows and takes one row per turn of its loop.                            *)
(***************************************************************************)
\* Row lengths around the places where the test of the loop changes its mind.
RowSizes == {1, MaxChunk \div 2 - 1, MaxChunk \div 2, MaxChunk - 1, MaxChunk,
             MaxChunk + 1}

RowSeqs == UNION {[1..n -> RowSizes] : n \in 0..MaxRows}

InitPag ==
    /\ InitBot /\ IdleMonths /\ IdleRow
    /\ \E sizes \in RowSeqs : p_in = [i \in 1..Len(sizes) |-> [id |-> i, len |-> sizes[i]]]
    /\ p_rows = p_in /\ p_acc = <<>> /\ p_out = <<>> /\ p_pc = "loop"

\* One turn of the loop: the row overflows the accumulator, which is yielded,
\* or joins it.
PagTurn ==
    /\ p_pc = "loop" /\ p_rows # <<>>
    /\ p_out' = p_out \o YieldOf(p_acc, Head(p_rows))
    /\ p_acc' = AccAfter(p_acc, Head(p_rows))
    /\ p_rows' = Tail(p_rows)
    /\ UNCHANGED <<p_in, p_pc, botVars, monthVars, rowVars>>

\* The final yield acc.
PagLast ==
    /\ p_pc = "loop" /\ p_rows = <<>>
    /\ p_out' = Append(p_out, p_acc)
    /\ p_pc' = "done"
    /\ UNCHANGED <<p_in, p_rows, p_acc, botVars, monthVars, rowVars>>

NextPag == PagTurn \/ PagLast

PagSpec == InitPag /\ [][NextPag]_vars

(***************************************************************************)
(* build_thread_row on its own: called with a title and a URL, it cuts the *)
(* title and then formats the row.                                         *)
(***************************************************************************)
\* The URL of a message of the archive, and lengths around MaxRowText.
UrlLens == {0, MonthUrlLen(PeriodAt(Epoch)) + LinkLen, MaxRowText \div 2,
            MaxRowText - 1, MaxRowText, MaxRowText + 1, 2 * MaxRowText}
MsgLens == {0, 1, TitleLength, MaxRowText \div 2, MaxRowText - 1, MaxRowText,
            MaxRowText + 1, 2 * MaxRowText}

InitRow ==
    /\ InitBot /\ IdleMonths /\ IdlePag
    /\ r_msg \in MsgLens /\ r_url \in UrlLens
    /\ r_out = NoRow /\ r_pc = "cut"

\* max_len = 4000 - len(url); message[:max_len]
RowCut ==
    /\ r_pc = "cut"
    /\ r_out' = [NoRow EXCEPT !.title = SliceLen(r_msg, MaxRowText - r_url)]
    /\ r_pc' = "format"
    /\ UNCHANGED <<r_msg, r_url, botVars, monthVars, pagVars>>

\* ' - <a href="{}">{}</a>'.format(url, label)
RowFormat ==
    /\ r_pc = "format"
    /\ r_out' = [r_out EXCEPT !.url = r_url, !.len = RowLen(r_msg, r_url)]
    /\ r_pc' = "done"
    /\ UNCHANGED <<r_msg, r_url, botVars, monthVars, pagVars>>

NextRow == RowCut \/ RowFormat

RowSpec == InitRow /\ [][NextRow]_vars

(***************************************************************************)
(* The claims.                                                             *)
(***************************************************************************)
\* Whether job j's cycle still has the row of entry id to deliver.
Holds(j, id) ==
    \/ jobs[j].pc = "scan" /\ id \in RowIds(jobs[j].rows)
    \/ jobs[j].pc = "send" /\ \E k \in 1..Len(jobs[j].chunks) : id \in RowIds(jobs[j].chunks[k])

\* The step in which job j's cycle gets the answer to its request for the
\* thread index of the next period.
IndexStep(j) ==
    /\ jobs[j].pc = "scan" /\ jobs[j].topics = <<>> /\ jobs[j].months # <<>>
    /\ jobs'[j] # jobs[j]

\* C1: no loss across cycles.  An entry whose date lay after the checkpoint a
\* cycle started from and not after the checkpoint that cycle wrote (covered)
\* is delivered by that cycle or by a later one: in every state it has been
\* delivered, or a cycle in flight still holds its row, or its date is still
\* after last_check, so that the next cycle keeps it.  An entry at or before
\* last_check that no cycle holds is discarded by every later cycle.
C1_NoLossAcrossCycles ==
    \A i \in 1..Len(archive) :
        archive[i].id \in covered =>
            \/ archive[i].id \in delivered
            \/ archive[i].date > last_check
            \/ \E j \in JobIds : Holds(j, archive[i].id)

\* C2: the checkpoint write is the last step of a cycle: a cycle that an
\* exception ended has not written last_check.
C2_FailedCycleKeepsCheckpoint ==
    \A j \in JobIds : jobs[j].err # "none" => ~jobs[j].wrote

\* C3: checkpoint monotonicity.  The value a cycle leaves in last_check is
\* not below the value the cycle that wrote before it left there.
C3_CheckpointMonotone ==
    prevWritten # None => prevWritten <= lastWritten

\* Two cycles have written the checkpoint, the second a later value.
C3_Witness ==
    prevWritten # None /\ prevWritten < lastWritten

\* C4: an entry whose date cannot be parsed is skipped and the cycle goes on:
\* no cycle is ended by the comparison of the missing date with last_check.
C4_UnparseableDateIsSkipped ==
    \A j \in JobIds : jobs[j].err # "TypeError"

\* C5: a failure to fetch a period's thread index other than a 404 aborts the
\* cycle and leaves last_check alone; the cycle does not go on as if the
\* period were empty.
C5_FetchFailureAbortsCycle ==
    [][\A j \in JobIds :
         (IndexStep(j) /\ jobs'[j].answer \in {"5xx", "neterr"}) =>
             /\ jobs'[j].pc = "idle"
             /\ jobs'[j].err = "FetchFailure"
             /\ ~jobs'[j].wrote
             /\ last_check' = last_check]_vars

\* The step a cycle takes once no period is left to scan.
LastPeriodDone(j) ==
    /\ jobs[j].pc = "scan" /\ jobs[j].topics = <<>> /\ jobs[j].months = <<>>
    /\ jobs'[j] # jobs[j]

\* C6: a period whose page does not exist counts as empty.  The step that
\* gets the 404 adds no row, raises nothing, leaves last_check alone and
\* moves the cycle on to the periods that remain; and the step a cycle takes
\* when no period remains completes the scan and advances the checkpoint to
\* now().
C6_MissingPeriodIsEmpty ==
    [][\A j \in JobIds :
         /\ (IndexStep(j) /\ jobs'[j].answer = "404") =>
                /\ jobs'[j].pc = "scan"
                /\ jobs'[j].err = "none"
                /\ jobs'[j].rows = jobs[j].rows
                /\ jobs'[j].topics = <<>>
                /\ jobs'[j].months = Tail(jobs[j].months)
                /\ last_check' = last_check
         /\ LastPeriodDone(j) =>
                /\ jobs'[j].wrote /\ jobs'[j].err = "none"
                /\ last_check' = now]_vars

\* A cycle has just found a period without a page, and goes on to a period
\* that has entries.
C6_Witness ==
    \E j \in JobIds :
        /\ jobs[j].pc = "scan" /\ jobs[j].answer = "404"
        /\ jobs[j].months # <<>> /\ PageExists(Head(jobs[j].months))

\* C7: mutual exclusion of cycles: at most one cycle is in flight.
C7_OneCycleInFlight ==
    Cardinality({j \in JobIds : jobs[j].pc # "idle"}) <= 1

\* The month index year*12 + month of a timestamp, and the month i months
\* after a (year, month) pair, by the calendar.
MonthIndex(t) == Year(t) * 12 + Month(t)
NextMonthOf(ym) == IF ym[2] = 12 THEN <<ym[1] + 1, 1>> ELSE <<ym[1], ym[2] + 1>>
RECURSIVE MonthPlus(_, _)
MonthPlus(ym, i) == IF i = 0 THEN ym ELSE MonthPlus(NextMonthOf(ym), i - 1)
NamedPeriod(ym) == <<ym[1], MonthName(ym[2])>>

\* What the claim expects of months_after(m_date, m_today).
ExpectedPeriods ==
    /\ Len(m_out) = MonthIndex(m_today) - MonthIndex(m_date) + 1
    /\ \A i \in 1..Len(m_out) :
          m_out[i] = NamedPeriod(MonthPlus(<<Year(m_date), Month(m_date)>>, i - 1))

\* C8 as claimed: for every checkpoint and every current date, months_after
\* yields exactly (Y1*12+M1) - (Y0*12+M0) + 1 periods, the i-th the month i
\* months after the checkpoint's month.
C8_EnumerationAsClaimed ==
    m_pc = "done" => ExpectedPeriods

\* C8 as amended: that holds when the checkpoint's month is not later than the
\* current month; for a checkpoint in a later month months_after yields no
\* period.
C8_EnumerationComplete ==
    m_pc = "done" =>
        IF MonthIndex(m_date) <= MonthIndex(m_today)
        THEN ExpectedPeriods
        ELSE m_out = <<>>

\* An enumeration across a year boundary has ended.
C8_Witness ==
    /\ m_pc = "done" /\ Year(m_date) < Year(m_today) /\ Len(m_out) > 12

\* C9: pagination preserves content and order.  The chunks yielded so far,
\* the accumulator and the rows not yet read make up the input, so that the
\* chunks of a finished run, concatenated, are the input rows in their order.
C9_PaginationPreservesRows ==
    Flatten(p_out) \o (IF p_pc = "done" THEN <<>> ELSE p_acc) \o p_rows = p_in

\* A run over several rows has ended with more than one chunk.
C9_Witness ==
    /\ p_pc = "done" /\ Len(p_in) >= 3 /\ Len(p_out) >= 2

\* Whether every row of the input that is too long by `oversized` is a chunk
\* of its own.
AloneInChunk(oversized(_)) ==
    \A i \in 1..Len(p_in) :
        oversized(p_in[i]) => \E k \in 1..Len(p_out) : p_out[k] = <<p_in[i]>>

\* C10 as claimed: a chunk is at most MaxChunk long, separators included,
\* unless it is one row whose own length exceeds MaxChunk; such a row is
\* emitted alone.
C10_SizeBoundAsClaimed ==
    /\ \A k \in 1..Len(p_out) :
          \/ StrLen(p_out[k]) <= MaxChunk
          \/ Len(p_out[k]) = 1 /\ p_out[k][1].len > MaxChunk
    /\ p_pc = "done" => AloneInChunk(LAMBDA r : r.len > MaxChunk)

\* C10 as amended: a chunk is at most MaxChunk long, separators included,
\* unless it is one row that together with its separator exceeds MaxChunk (a
\* row of MaxChunk characters or more); such a row is emitted alone.
C10_SizeBound ==
    /\ \A k \in 1..Len(p_out) :
          \/ StrLen(p_out[k]) <= MaxChunk
          \/ Len(p_out[k]) = 1 /\ p_out[k][1].len + 1 > MaxChunk
    /\ p_pc = "done" => AloneInChunk(LAMBDA r : r.len + 1 > MaxChunk)

\* A run has ended with an oversized chunk beside a full one.
C10_Witness ==
    /\ p_pc = "done"
    /\ \E k \in 1..Len(p_out) : StrLen(p_out[k]) > MaxChunk
    /\ \E k \in 1..Len(p_out) : StrLen(p_out[k]) = MaxChunk /\ Len(p_out[k]) = 2

\* C11: every chunk paginate_message yields is non-empty (holds at least one
\* row), whatever the rows and their sizes, also when the first row alone is
\* larger than the maximum chunk size.
C11_ChunksNonEmpty ==
    \A k \in 1..Len(p_out) : p_out[k] # <<>>

\* C12: a /slc command whose text holds no date that can be read is
\* rejected: the handler sends an error message (the apology when the bot is
\* started) and last_check and started keep the values they had.
C12_UnparseableCheckpointRejected ==
    [][(reply'.cmd = "slc" /\ reply'.arg = "NoDate") =>
          /\ reply'.text \in {"Sorry", "NotStarted"}
          /\ started => reply'.text = "Sorry"
          /\ ~reply'.raised
          /\ last_check' = last_check
          /\ started' = started]_vars

\* The started bot has just turned down an unreadable /slc, after its
\* checkpoint had moved.
C12_Witness ==
    /\ started /\ last_check > Epoch
    /\ reply = Answer("slc", "NoDate", "Sorry")

\* C13: /th does not interact with the checkpoint.  The handler leaves
\* last_check and started as they were in every outcome, and the rows of a
\* listing it delivers in full are all the entries of the period, in the
\* page's order, whatever last_check is and whatever a cycle in flight is
\* doing.
C13_ListingIgnoresCheckpoint ==
    [][reply'.cmd = "th" =>
          /\ last_check' = last_check
          /\ started' = started
          /\ (reply'.text = "Threads" /\ ~reply'.raised) =>
                reply'.rows = IdsOf(PageOf(reply'.per))]_vars

\* C14: row length bound.  For every title length and every URL length the
\* row build_thread_row returns (URL, cut title, date and markup together) is
\* at most MaxRowText long, and holds the URL uncut.
C14_RowLengthBound ==
    r_pc = "done" => r_out.len <= MaxRowText /\ r_out.url = r_url

\* The step in which job j's cycle compares the date of the next entry of the
\* page, and whether it kept the entry.
ComparedStep(j) ==
    /\ jobs[j].pc = "scan" /\ jobs[j].topics # <<>>
    /\ jobs'[j].pc = "scan" /\ jobs'[j].topics = Tail(jobs[j].topics)
KeptEntry(j) == jobs'[j].rows # jobs[j].rows

\* C15: within one cycle every entry is compared with the checkpoint read at
\* the start of the cycle (since): an entry is kept if and only if its date
\* is strictly greater than that value, also when a command changes
\* last_check while the cycle is in flight.
C15_ComparedWithSince ==
    [][\A j \in JobIds :
         ComparedStep(j) =>
            (KeptEntry(j) <=> Head(jobs[j].topics).date > jobs[j].since)]_vars

\* The number of a period's month, and whether entry a comes before entry b
\* in chronological order: in an earlier period, or earlier on the same page.
PeriodIndex(per) == 12 * per[1] + CHOOSE m \in 1..12 : MonthName(m) = per[2]
PosIn(page, id) == CHOOSE i \in 1..Len(page) : page[i].id = id
ComesBefore(a, b) ==
    LET pa == archive[a].per
        pb == archive[b].per
    IN  \/ PeriodIndex(pa) < PeriodIndex(pb)
        \/ pa = pb /\ PosIn(PageOf(pa), a) < PosIn(PageOf(pb), b)
Chronological(rows) ==
    \A i, k \in 1..Len(rows) : i < k => ComesBefore(rows[i].id, rows[k].id)

\* The step in which job j's cycle hands a chunk to send_message, and
\* whether the send went through.
SendStep(j) == jobs[j].pc = "send" /\ jobs'[j] # jobs[j]
SendWentThrough(j) == jobs'[j].err = "none"

\* What is left to send is the end of the header and the rows.
RestOfMessage(j) ==
    LET all == <<HeaderRow>> \o jobs[j].rows
    IN  \E k \in 1..Len(all) + 1 : Flatten(jobs[j].chunks) = SubSeq(all, k, Len(all))

\* C16: delivery order.  The rows a cycle collects are in chronological
\* order (the periods oldest first, a period's entries in the page's order);
\* the message is one header followed by these rows, cut into chunks by
\* paginate_message; and the chunks are sent in the order they were yielded,
\* each send delivering the first chunk not sent yet.
C16_DeliveryOrder ==
    /\ [](\A j \in JobIds :
            /\ jobs[j].pc \in {"scan", "send"} => Chronological(jobs[j].rows)
            /\ jobs[j].pc = "send" => RestOfMessage(j))
    /\ [][\A j \in JobIds :
            /\ (jobs[j].pc = "scan" /\ jobs'[j].pc = "send") =>
                  /\ jobs'[j].chunks = paginate_message(<<HeaderRow>> \o jobs[j].rows)
                  /\ Flatten(jobs'[j].chunks) = <<HeaderRow>> \o jobs'[j].rows
            /\ (SendStep(j) /\ SendWentThrough(j)) =>
                  /\ delivered' = delivered \cup RowIds(Head(jobs[j].chunks))
                  /\ \/ jobs'[j].chunks = Tail(jobs[j].chunks)
                     \/ jobs'[j].pc = "idle" /\ Tail(jobs[j].chunks) = <<>>]_vars

\* A cycle that kept an entry of each of two periods has sent the first of
\* its two chunks.
C16_Witness ==
    \E j \in JobIds :
        /\ jobs[j].pc = "send" /\ Len(jobs[j].rows) = 2 /\ Len(jobs[j].chunks) = 1
        /\ archive[jobs[j].rows[1].id].per # archive[jobs[j].rows[2].id].per
        /\ jobs[j].rows[1].id \in delivered

\* C17: a cycle delivers a message only if it kept an entry, and it keeps an
\* entry only if the entry's date is strictly greater than the checkpoint: a
\* cycle that kept nothing ends with the checkpoint write and sends nothing,
\* not even a header.
C17_NoRowsNoMessage ==
    /\ [](\A j \in JobIds : jobs[j].pc = "send" => jobs[j].rows # <<>>)
    /\ [][/\ \A j \in JobIds :
               /\ (ComparedStep(j) /\ KeptEntry(j)) =>
                     Head(jobs[j].topics).date > last_check
               /\ (LastPeriodDone(j) /\ jobs[j].rows = <<>>) => jobs'[j].pc = "idle"
          /\ delivered' # delivered => \E j \in JobIds : SendStep(j)]_vars

\* A cycle has ended with the checkpoint written and nothing sent, every
\* entry of the archive being older than the checkpoint.
C17_Witness ==
    /\ archive # <<>> /\ delivered = {}
    /\ \A i \in 1..Len(archive) : archive[i].date # None /\ archive[i].date < last_check
    /\ \E j \in JobIds : jobs[j].pc = "idle" /\ jobs[j].wrote /\ jobs[j].err = "none"

\* C18: no duplicate reports.  When cycles do not overlap and nobody sends
\* /slc (an entry's date is its posting time, never later than the clock
\* when it is fetched), no entry is delivered by more than one cycle,
\* however many jobs /start has registered: a chunk that is sent holds no
\* entry delivered before.
C18_NoDuplicateReports ==
    [][\A j \in JobIds :
         (SendStep(j) /\ SendWentThrough(j)) =>
            RowIds(Head(jobs[j].chunks)) \cap delivered = {}]_vars

\* With two jobs registered, a cycle is going through a page that holds an
\* entry delivered before.
C18_Witness ==
    /\ Cardinality(Registered) = 2
    /\ \E j \in JobIds :
          /\ jobs[j].pc = "scan"
          /\ \E i \in 1..Len(jobs[j].topics) : jobs[j].topics[i].id \in delivered

\* C19: /slc has no effect before the bot is started.  While started is
\* false the handler leaves last_check alone whatever its text is, and sends
\* the 'not started' message and nothing else; and started, once true, stays
\* true.
C19_NoCheckpointSetBeforeStart ==
    [][/\ (reply'.cmd = "slc" /\ ~started) =>
             /\ reply' = Answer("slc", reply'.arg, "NotStarted")
             /\ last_check' = last_check
             /\ ~started'
       /\ started => started']_vars

\* A /slc that names a date has just been refused, after a /start whose
\* welcome message could not be sent had reset the checkpoint.
C19_Witness ==
    /\ ~started /\ last_check > Epoch
    /\ reply = Answer("slc", "Date", "NotStarted")

====
